---- MODULE Spec2Model ----
(***************************************************************************)
(* Model of idx2-test.cpp: the query geometry (GetGrid, GetOutputGrid),    *)
(* the slice collapse (CollapseByInterpolation), the layout strides        *)
(* (GetStrides), the multi-file decode orchestration                       *)
(* (DecodeMultipleFiles dispatching RunQueryTask threads that share the    *)
(* atomic counter NumThreads) and the query front end (ExecuteQuery).      *)
(*                                                                         *)
(* Vectors (idx2::v3i) are tuples <<x, y, z>>.  Indices I, J, Begin keep   *)
(* their C++ (0-based) values; sequences are 1-based, so element I of a    *)
(* std::vector is Seq[I + 1].                                              *)
(***************************************************************************)
EXTENDS Integers, Sequences, FiniteSets, TLC

(***************************************************************************)
(* Bounds of the model                                                     *)
(***************************************************************************)
MaxQueries == 2        \* longest Inputs vector of a batch
MaxHwThreads == 2      \* largest value of std::thread::hardware_concurrency()
MaxDim == 7            \* largest volume dimension of a GetGrid call
MaxFactor == 2         \* largest downsampling factor of a GetGrid call
MaxSlab == 2           \* largest dimension across the collapsed axis
MaxSeed == 2           \* sample patterns of a collapsed volume
WeightDen == 2         \* interpolation weights are 0/WeightDen .. WeightDen/WeightDen
MaxFaces == 5          \* counts of a GetStrides call
MaxDepths == 2
MaxTimes == 3
MaxTimeStep == 3       \* time steps of an ExecuteQuery call are 0..MaxTimeStep
MaxTimeGroup == 2      \* largest TimeGroup of a query_info
MaxDepth == 1          \* depths of an ExecuteQuery call are 0..MaxDepth
MaxSample == 3         \* the samples of a file are 2, 4 .. 2 * MaxSample

SizeOfFloat32 == 4     \* idx2::SizeOf(dtype::float32)

NameBase == 10         \* "%d" of NameFormat prints decimal digits

Axes == 1..3

(***************************************************************************)
(* v3i arithmetic                                                          *)
(***************************************************************************)
V3(x, y, z) == <<x, y, z>>

Zero3 == V3(0, 0, 0)

Min2(a, b) == IF a <= b THEN a ELSE b

Max2(a, b) == IF a >= b THEN a ELSE b

\* C++ integer division truncates toward zero
CDiv(a, b) ==
  IF a >= 0 THEN a \div b ELSE -((-a) \div b)

\* 1 << k
RECURSIVE Pow2(_)
Pow2(k) == IF k <= 0 THEN 1 ELSE 2 * Pow2(k - 1)

Prod3(v) == v[1] * v[2] * v[3]

(***************************************************************************)
(* idx2::extent and idx2::grid                                             *)
(***************************************************************************)
Extent(From3, Dims3) == [From |-> From3, Dims |-> Dims3]

\* idx2::extent(Dims3): the whole volume
ExtentOfDims(Dims3) == Extent(Zero3, Dims3)

Grid(From3, Dims3, Strd3) == [From |-> From3, Dims |-> Dims3, Strd |-> Strd3]

LastE(E) == [d \in Axes |-> E.From[d] + E.Dims[d] - 1]

LastG(G) == [d \in Axes |-> G.From[d] + (G.Dims[d] - 1) * G.Strd[d]]

EmptyGrid == Grid(Zero3, Zero3, V3(1, 1, 1))

\* idx2::Crop(Ext, Volume): the intersection, empty (dims 0) when disjoint
Crop(E1, E2) ==
  LET Frst(d) == Max2(E1.From[d], E2.From[d])
      Last(d) == Min2(E1.From[d] + E1.Dims[d] - 1, E2.From[d] + E2.Dims[d] - 1)
  IN  IF \A d \in Axes : Frst(d) <= Last(d)
        THEN Extent([d \in Axes |-> Frst(d)],
                    [d \in Axes |-> Last(d) - Frst(d) + 1])
        ELSE Extent([d \in Axes |-> Frst(d)], Zero3)

\* idx2::BoundingBox: axis-wise minimum of the firsts, maximum of the lasts
BoundingBox(E1, E2) ==
  LET Frst(d) == Min2(E1.From[d], E2.From[d])
      Last(d) == Max2(E1.From[d] + E1.Dims[d] - 1, E2.From[d] + E2.Dims[d] - 1)
  IN  Extent([d \in Axes |-> Frst(d)],
             [d \in Axes |-> Last(d) - Frst(d) + 1])

(***************************************************************************)
(* GetGrid, GetOutputGrid                                                  *)
(***************************************************************************)
GetGridSnapDown(Dims3, DownsamplingFactor3, Ext) ==
  LET CroppedExt == Crop(Ext, ExtentOfDims(Dims3))
      Strd3(d) == Pow2(DownsamplingFactor3[d])
      First0(d) == CroppedExt.From[d]
      Last0(d) == CroppedExt.From[d] + CroppedExt.Dims[d] - 1
      Last3(d) == CDiv(Last0(d), Strd3(d)) * Strd3(d)
      First3(d) == CDiv(First0(d), Strd3(d)) * Strd3(d)
  IN  Grid([d \in Axes |-> First3(d)],
           [d \in Axes |-> CDiv(Last3(d) - First3(d), Strd3(d)) + 1],
           [d \in Axes |-> Strd3(d)])

\* lines 242-252; Strd3, First3, Last3 are given axis by axis
GetGrid(Dims3, DownsamplingFactor3, Ext) ==
  LET CroppedExt == Crop(Ext, ExtentOfDims(Dims3))
      Strd3(d) == Pow2(DownsamplingFactor3[d])
      First0(d) == CroppedExt.From[d]
      Last0(d) == CroppedExt.From[d] + CroppedExt.Dims[d] - 1
      Last3(d) == CDiv(Last0(d) + Strd3(d) - 1, Strd3(d)) * Strd3(d)
      First3(d) == CDiv(First0(d), Strd3(d)) * Strd3(d)
  IN  Grid([d \in Axes |-> First3(d)],
           [d \in Axes |-> CDiv(Last3(d) - First3(d), Strd3(d)) + 1],
           [d \in Axes |-> Strd3(d)])

GetOutputGrid(Dims3, Input) ==
  IF Input.Extent.Dims = Zero3
    THEN GetGrid(Dims3, Input.Downsampling3, ExtentOfDims(Dims3))
    ELSE GetGrid(Dims3, Input.Downsampling3, Input.Extent)

(***************************************************************************)
(* State                                                                   *)
(***************************************************************************)
VARIABLES
  Inputs,        \* the caller's std::vector<input>
  Outputs,       \* the caller's std::vector<output>
  SortedInputs,  \* std::vector<std::pair<input, int>> of DecodeMultipleFiles
  NumThreads,    \* std::atomic<int> NumThreads
  MaxThreads,    \* std::thread::hardware_concurrency()
  pc,            \* position of the thread running DecodeMultipleFiles
  I,             \* loop variable I of DecodeMultipleFiles
  Begin,         \* local Begin of DecodeMultipleFiles
  Tasks,         \* the detached RunQueryTask threads, in launch order
  Result,        \* what DecodeMultipleFiles returned ("none" before)
  call           \* one call of a pure function or of ExecuteQuery:
                 \* arguments, position and result

vars == <<Inputs, Outputs, SortedInputs, NumThreads, MaxThreads, pc, I, Begin,
          Tasks, Result, call>>

batchVars == <<Inputs, Outputs, SortedInputs, NumThreads, MaxThreads, pc, I,
               Begin, Tasks, Result>>

NoCall == [op |-> "none"]

(***************************************************************************)
(* The data set: the volume dimensions the codec reports for a file        *)
(* (Idx2.Dims3, returned by DecodeOneFile), and the queries of a batch.    *)
(***************************************************************************)
FileDims3(f) == IF f % 2 = 1 THEN V3(7, 5, 2) ELSE V3(5, 7, 2)

MakeInput(InFile, Ext, Downsampling3, Accuracy) ==
  [InFile |-> InFile, Extent |-> Ext, Downsampling3 |-> Downsampling3,
   Accuracy |-> Accuracy]

NoInput == MakeInput(0, Extent(Zero3, Zero3), Zero3, 0)

\* A query: an input and the bytes of the output buffer the caller
\* preallocated for it (0: no buffer, OutBuffer is null).
QueryKinds ==
  { [Extent |-> Extent(V3(1, 1, 0), V3(4, 3, 1)), Downsampling3 |-> V3(1, 0, 0),
     Accuracy |-> 1, Bytes |-> 0],
    [Extent |-> Extent(Zero3, Zero3), Downsampling3 |-> Zero3,
     Accuracy |-> 1, Bytes |-> 0],
    [Extent |-> Extent(V3(1, 0, 1), V3(1, 5, 1)), Downsampling3 |-> V3(1, 0, 0),
     Accuracy |-> 2, Bytes |-> 4096],
    [Extent |-> Extent(V3(2, 2, 0), V3(3, 2, 2)), Downsampling3 |-> V3(0, 1, 0),
     Accuracy |-> 2, Bytes |-> 8] }

\* Two file identifiers (InFile strings, ordered as the strings are)
Files == {1, 2}

Queries == [InFile : Files, Kind : QueryKinds]

\* The values a float32 of a buffer can hold
Floats == 0..(2 * MaxSample)

\* What the caller left in a buffer it preallocated
CallerFill == 0

\* An output record; Writers: the tasks that wrote it; Fill: the values that
\* a sample of OutBuffer may hold (none without a buffer, any value in
\* memory that was allocated and never written)
MakeOutput(OutGrid, Bytes, DataType, Writers, Fill) ==
  [OutGrid |-> OutGrid, Bytes |-> Bytes, DataType |-> DataType,
   Writers |-> Writers, Fill |-> Fill]

\* An output record as the caller passes it
CallerOutput(Bytes) ==
  MakeOutput(EmptyGrid, Bytes, "none", {},
             IF Bytes = 0 THEN {} ELSE {CallerFill})

(***************************************************************************)
(* DecodeOneFile: the grid of the covering decode.  The codec's            *)
(* idx2::GetOutputGrid snaps P.DecodeExtent as GetGrid does; the slice     *)
(* axes (requested dims 1, grid dims 2) are then collapsed.                *)
(***************************************************************************)
CodecOutputGrid(Dims3, DownsamplingFactor3, DecodeExtent) ==
  GetGrid(Dims3, DownsamplingFactor3, DecodeExtent)

DecodeExtentOf(Dims3, In) ==
  IF In.Extent.Dims = Zero3 THEN ExtentOfDims(Dims3) ELSE In.Extent

\* lines 171-175 and 190-203
DecodeOneFileGrid(Dims3, In) ==
  LET DecodeExtent == DecodeExtentOf(Dims3, In)
      Collapsed(G) ==
        LET Slice(d) == DecodeExtent.Dims[d] = 1 /\ G.Dims[d] = 2
        IN  Grid([d \in Axes |-> IF Slice(d) THEN DecodeExtent.From[d]
                                              ELSE G.From[d]],
                 [d \in Axes |-> IF Slice(d) THEN 1 ELSE G.Dims[d]],
                 G.Strd)
  IN  CHOOSE R \in
        { Collapsed(G) :
            G \in {CodecOutputGrid(Dims3, In.Downsampling3, DecodeExtent)} } :
        TRUE

\* The samples that the codec decodes from file f, by coordinate
FileSample(f, P) == 2 * (1 + ((f + P[1] + 2 * P[2] + P[3]) % MaxSample))

\* lines 186-205: the sample of the buffer that DecodeOneFile returns at the
\* coordinate P of its grid.  G0 is the grid before the collapse; the loop
\* collapses axis 3 first, so the collapse of axis 1 is the outermost.
RECURSIVE DecodedAt(_, _, _, _, _)
DecodedAt(f, G0, DecodeExtent, P, d) ==
  IF d > 3 THEN FileSample(f, P)
  ELSE IF DecodeExtent.Dims[d] = 1 /\ G0.Dims[d] = 2
    THEN LET V1 == DecodedAt(f, G0, DecodeExtent,
                             [P EXCEPT ![d] = G0.From[d]], d + 1)
             V2 == DecodedAt(f, G0, DecodeExtent,
                             [P EXCEPT ![d] = LastG(G0)[d]], d + 1)
             TNum == DecodeExtent.From[d] - G0.From[d]
             TDen == LastG(G0)[d] - G0.From[d]
         IN  (V1 * TNum + V2 * (TDen - TNum)) \div TDen
    ELSE DecodedAt(f, G0, DecodeExtent, P, d + 1)

DecodeOneFileBufferAt(Dims3, In, P) ==
  LET DecodeExtent == DecodeExtentOf(Dims3, In)
  IN  DecodedAt(In.InFile,
                CodecOutputGrid(Dims3, In.Downsampling3, DecodeExtent),
                DecodeExtent, P, 1)

(***************************************************************************)
(* DecodeMultipleFiles: the dispatcher                                     *)
(***************************************************************************)
Size == Len(SortedInputs)

\* std::sort on InFile: any ordering of the pairs with InFile nondecreasing
\* (std::sort does not promise to keep equal elements in their order)
SortedOrders(Ins) ==
  { p \in [1..Len(Ins) -> 1..Len(Ins)] :
      /\ \A a, b \in 1..Len(Ins) : a # b => p[a] # p[b]
      /\ \A a \in 1..(Len(Ins) - 1) : Ins[p[a]].InFile <= Ins[p[a + 1]].InFile }

\* lines 344-346, assertions compiled in: an empty Inputs aborts the process
AssertAbort ==
  /\ pc = "entry"
  /\ Len(Inputs) = 0
  /\ pc' = "aborted"
  /\ UNCHANGED <<Inputs, Outputs, SortedInputs, NumThreads, MaxThreads, I,
                 Begin, Tasks, Result, call>>

\* lines 344-357: (assertions hold or are compiled out) copy, sort, Begin = 0
SortInputs ==
  /\ pc = "entry"
  /\ \E p \in SortedOrders(Inputs) :
       SortedInputs' = [k \in 1..Len(Inputs) |->
                          [first |-> Inputs[p[k]], second |-> p[k] - 1]]
  /\ Begin' = 0
  /\ I' = 1
  /\ pc' = "loop"
  /\ UNCHANGED <<Inputs, Outputs, NumThreads, MaxThreads, Tasks, Result, call>>

\* lines 358-361: the loop test and the test for the end of a run of equal files
LoopExit ==
  /\ pc = "loop"
  /\ ~(I <= Size)
  /\ pc' = "final"
  /\ UNCHANGED <<Inputs, Outputs, SortedInputs, NumThreads, MaxThreads, I,
                 Begin, Tasks, Result, call>>

LoopContinue ==
  /\ pc = "loop"
  /\ I <= Size
  /\ I < Size /\ SortedInputs[I + 1].first.InFile = SortedInputs[I].first.InFile
  /\ I' = I + 1
  /\ UNCHANGED <<Inputs, Outputs, SortedInputs, NumThreads, MaxThreads, pc,
                 Begin, Tasks, Result, call>>

LoopGroupEnd ==
  /\ pc = "loop"
  /\ I <= Size
  /\ ~(I < Size /\ SortedInputs[I + 1].first.InFile = SortedInputs[I].first.InFile)
  /\ pc' = "admit"
  /\ UNCHANGED <<Inputs, Outputs, SortedInputs, NumThreads, MaxThreads, I,
                 Begin, Tasks, Result, call>>

\* lines 362-364: the admission wait
AdmitSleep ==
  /\ pc = "admit"
  /\ NumThreads >= MaxThreads
  /\ pc' = "admit_sleep"
  /\ UNCHANGED <<Inputs, Outputs, SortedInputs, NumThreads, MaxThreads, I,
                 Begin, Tasks, Result, call>>

AdmitWake ==
  /\ pc = "admit_sleep"
  /\ pc' = "admit"
  /\ UNCHANGED <<Inputs, Outputs, SortedInputs, NumThreads, MaxThreads, I,
                 Begin, Tasks, Result, call>>

AdmitPass ==
  /\ pc = "admit"
  /\ ~(NumThreads >= MaxThreads)
  /\ pc' = "inc"
  /\ UNCHANGED <<Inputs, Outputs, SortedInputs, NumThreads, MaxThreads, I,
                 Begin, Tasks, Result, call>>

\* line 365
Increment ==
  /\ pc = "inc"
  /\ NumThreads' = NumThreads + 1
  /\ pc' = "spawn"
  /\ UNCHANGED <<Inputs, Outputs, SortedInputs, MaxThreads, I, Begin, Tasks,
                 Result, call>>

NewTask(B, E) ==
  [Begin |-> B, I |-> E, pc |-> "decode", J |-> B, Input |-> NoInput,
   OutGrid |-> EmptyGrid, Dims3 |-> Zero3, Err |-> "none", Decodes |-> 0,
   Decs |-> 0]

\* lines 366-370 and the ++I of line 358
Spawn ==
  /\ pc = "spawn"
  /\ Tasks' = Append(Tasks, NewTask(Begin, I))
  /\ Begin' = I
  /\ I' = I + 1
  /\ pc' = "loop"
  /\ UNCHANGED <<Inputs, Outputs, SortedInputs, NumThreads, MaxThreads, Result,
                 call>>

\* lines 373-375: the final wait
FinalSleep ==
  /\ pc = "final"
  /\ NumThreads > 0
  /\ pc' = "final_sleep"
  /\ UNCHANGED <<Inputs, Outputs, SortedInputs, NumThreads, MaxThreads, I,
                 Begin, Tasks, Result, call>>

FinalWake ==
  /\ pc = "final_sleep"
  /\ pc' = "final"
  /\ UNCHANGED <<Inputs, Outputs, SortedInputs, NumThreads, MaxThreads, I,
                 Begin, Tasks, Result, call>>

\* line 377
ReturnResult == "NoError"

Return ==
  /\ pc = "final"
  /\ ~(NumThreads > 0)
  /\ Result' = ReturnResult
  /\ pc' = "returned"
  /\ UNCHANGED <<Inputs, Outputs, SortedInputs, NumThreads, MaxThreads, I,
                 Begin, Tasks, call>>

(***************************************************************************)
(* RunQueryTask: one detached thread per group [Begin, I) of SortedInputs  *)
(***************************************************************************)
TaskIds == 1..Len(Tasks)

\* lines 278-281: accumulate the extent over the members J = Begin .. I - 1
RECURSIVE AccumulateExtent(_, _, _, _)
AccumulateExtent(S, J, E, Ext) ==
  IF J < E
    THEN AccumulateExtent(S, J + 1, E, BoundingBox(Ext, S[J + 1].first.Extent))
    ELSE Ext

CoveringExtentFirstOnly(S, B, E) == S[B + 1].first.Extent

CoveringExtent(S, B, E) == AccumulateExtent(S, B, E, S[B + 1].first.Extent)

\* lines 282-286: the input of the covering decode
CoveringInput(S, B, E) ==
  MakeInput(S[B + 1].first.InFile, CoveringExtent(S, B, E),
            S[B + 1].first.Downsampling3, S[B + 1].first.Accuracy)

\* lines 277-293, DecodeOneFile succeeds
TaskDecodeOk(t) ==
  /\ Tasks[t].pc = "decode"
  /\ \E In \in {CoveringInput(SortedInputs, Tasks[t].Begin, Tasks[t].I)} :
       \E G \in {DecodeOneFileGrid(FileDims3(In.InFile), In)} :
         Tasks' = [Tasks EXCEPT ![t].Input = In,
                                ![t].Decodes = @ + 1,
                                ![t].OutGrid = G,
                                ![t].Dims3 = FileDims3(In.InFile),
                                ![t].pc = "scatter"]
  /\ UNCHANGED <<Inputs, Outputs, SortedInputs, NumThreads, MaxThreads, pc, I,
                 Begin, Result, call>>

\* lines 277-292, DecodeOneFile fails (Init or Decode of the codec): return
TaskDecodeFail(t) ==
  /\ Tasks[t].pc = "decode"
  /\ \E In \in {CoveringInput(SortedInputs, Tasks[t].Begin, Tasks[t].I)} :
       Tasks' = [Tasks EXCEPT ![t].Input = In,
                              ![t].Decodes = @ + 1,
                              ![t].Err = "CodecError",
                              ![t].pc = "failed"]
  /\ UNCHANGED <<Inputs, Outputs, SortedInputs, NumThreads, MaxThreads, pc, I,
                 Begin, Result, call>>

\* line 301: the output record of member J
OutputIndexOfPosition(S, J) == J

OutputIndexOfFirst(S, J) == S[1].second

OutputIndexOf(S, J) == S[J + 1].second

\* line 305
MinBufSize(G) == SizeOfFloat32 * Prod3(G.Dims)

\* lines 306-307
BytesAfterAlloc(Bytes, G) ==
  IF Bytes = 0 /\ (\A d \in Axes : G.Dims[d] > 0) THEN MinBufSize(G) ELSE Bytes

\* lines 306-307: idx2::AllocBuf does not initialise the memory
FillAfterAlloc(Fill, Bytes, G) ==
  IF Bytes = 0 /\ (\A d \in Axes : G.Dims[d] > 0) THEN Floats ELSE Fill

\* lines 301-319: what the task writes into the output record of member J
\* (the grid, the data type and the allocation; no sample is copied)
ScatterWrite(t, Out, J) ==
  LET K == OutputIndexOf(SortedInputs, J) + 1
  IN  CHOOSE W \in
        { [Out EXCEPT ![K] = MakeOutput(G, BytesAfterAlloc(Out[K].Bytes, G),
                                        "float32", Out[K].Writers \cup {t},
                                        FillAfterAlloc(Out[K].Fill,
                                                       Out[K].Bytes, G))] :
            G \in {GetOutputGrid(Tasks[t].Dims3, SortedInputs[J + 1].first)} } :
        TRUE

\* line 310
TooSmall(Out, J) ==
  LET K == OutputIndexOf(SortedInputs, J) + 1
  IN  Out[K].Bytes < MinBufSize(Out[K].OutGrid)

\* lines 300-320, one iteration of the distribution loop that passes the check
TaskScatterMember(t) ==
  /\ Tasks[t].pc = "scatter"
  /\ \E Out \in {ScatterWrite(t, Outputs, Tasks[t].J)} :
       /\ ~TooSmall(Out, Tasks[t].J)
       /\ Outputs' = Out
       /\ Tasks' = [Tasks EXCEPT ![t].J = @ + 1,
                                 ![t].pc = IF Tasks[t].J + 1 < Tasks[t].I
                                             THEN "scatter" ELSE "dec"]
  /\ UNCHANGED <<Inputs, SortedInputs, NumThreads, MaxThreads, pc, I, Begin,
                 Result, call>>

\* lines 300-310, an iteration that returns SizeTooSmall
TaskScatterTooSmall(t) ==
  /\ Tasks[t].pc = "scatter"
  /\ \E Out \in {ScatterWrite(t, Outputs, Tasks[t].J)} :
       /\ TooSmall(Out, Tasks[t].J)
       /\ Outputs' = Out
       /\ Tasks' = [Tasks EXCEPT ![t].Err = "SizeTooSmall",
                                 ![t].pc = "failed"]
  /\ UNCHANGED <<Inputs, SortedInputs, NumThreads, MaxThreads, pc, I, Begin,
                 Result, call>>

\* line 322
TaskDecrement(t) ==
  /\ Tasks[t].pc = "dec"
  /\ NumThreads' = NumThreads - 1
  /\ Tasks' = [Tasks EXCEPT ![t].Decs = @ + 1, ![t].pc = "tail"]
  /\ UNCHANGED <<Inputs, Outputs, SortedInputs, MaxThreads, pc, I, Begin,
                 Result, call>>

\* lines 323-326: print, return NoError, destroy the locals; the thread ends
TaskFinish(t) ==
  /\ Tasks[t].pc = "tail"
  /\ Tasks' = [Tasks EXCEPT ![t].pc = "done"]
  /\ UNCHANGED <<Inputs, Outputs, SortedInputs, NumThreads, MaxThreads, pc, I,
                 Begin, Result, call>>

TaskNext(t) ==
  \/ TaskDecodeOk(t)
  \/ TaskDecodeFail(t)
  \/ TaskScatterMember(t)
  \/ TaskScatterTooSmall(t)
  \/ TaskDecrement(t)
  \/ TaskFinish(t)

DispatcherNext ==
  \/ AssertAbort
  \/ SortInputs
  \/ LoopExit
  \/ LoopContinue
  \/ LoopGroupEnd
  \/ AdmitSleep
  \/ AdmitWake
  \/ AdmitPass
  \/ Increment
  \/ Spawn
  \/ FinalSleep
  \/ FinalWake
  \/ Return

(***************************************************************************)
(* The batch specification: one call of DecodeMultipleFiles                *)
(***************************************************************************)
Init ==
  /\ \E n \in 0..MaxQueries :
       \E qs \in [1..n -> Queries] :
         /\ Inputs = [k \in 1..n |->
                        MakeInput(qs[k].InFile, qs[k].Kind.Extent,
                                  qs[k].Kind.Downsampling3, qs[k].Kind.Accuracy)]
         /\ Outputs = [k \in 1..n |-> CallerOutput(qs[k].Kind.Bytes)]
  /\ MaxThreads \in 1..MaxHwThreads
  /\ SortedInputs = << >>
  /\ NumThreads = 0
  /\ pc = "entry"
  /\ I = 0
  /\ Begin = 0
  /\ Tasks = << >>
  /\ Result = "none"
  /\ call = NoCall

DecodeOk == \E t \in TaskIds : TaskDecodeOk(t)

DecodeFail == \E t \in TaskIds : TaskDecodeFail(t)

ScatterMember == \E t \in TaskIds : TaskScatterMember(t)

ScatterTooSmall == \E t \in TaskIds : TaskScatterTooSmall(t)

Decrement == \E t \in TaskIds : TaskDecrement(t)

Finish == \E t \in TaskIds : TaskFinish(t)

Next ==
  \/ AssertAbort
  \/ SortInputs
  \/ LoopExit
  \/ LoopContinue
  \/ LoopGroupEnd
  \/ AdmitSleep
  \/ AdmitWake
  \/ AdmitPass
  \/ Increment
  \/ Spawn
  \/ FinalSleep
  \/ FinalWake
  \/ Return
  \/ DecodeOk
  \/ DecodeFail
  \/ ScatterMember
  \/ ScatterTooSmall
  \/ Decrement
  \/ Finish

Spec == Init /\ [][Next]_vars

\* std::thread runs every started thread, and the caller's thread runs on
FairSpec ==
  /\ Init
  /\ [][Next]_vars
  /\ WF_vars(DispatcherNext)
  /\ \A t \in 1..MaxQueries : WF_vars(t \in TaskIds /\ TaskNext(t))

(***************************************************************************)
(* The batch variables while a pure function is called on its own         *)
(***************************************************************************)
IdleBatch ==
  /\ Inputs = << >>
  /\ Outputs = << >>
  /\ SortedInputs = << >>
  /\ NumThreads = 0
  /\ MaxThreads = 1
  /\ pc = "idle"
  /\ I = 0
  /\ Begin = 0
  /\ Tasks = << >>
  /\ Result = "none"

(***************************************************************************)
(* GetGrid on its own                                                      *)
(***************************************************************************)
\* One axis of a call: volume dimension, first and length of the requested
\* extent, downsampling factor
AxisCases ==
  [dim : 1..MaxDim, from : 0..MaxDim, len : 1..MaxDim, factor : 0..MaxFactor]

\* The other two axes of a call
OtherAxisCases ==
  { [dim |-> 5, from |-> 1, len |-> 3, factor |-> 0],
    [dim |-> 2, from |-> 1, len |-> 1, factor |-> 1] }

InitGrid ==
  /\ IdleBatch
  /\ \E c \in AxisCases, o1, o2 \in OtherAxisCases, a \in Axes :
       LET cs == [d \in Axes |-> IF d = a THEN c
                                 ELSE IF (d - a) % 3 = 1 THEN o1 ELSE o2]
       IN  call = [op |-> "GetGrid", done |-> FALSE,
                   Dims3 |-> [d \in Axes |-> cs[d].dim],
                   DownsamplingFactor3 |-> [d \in Axes |-> cs[d].factor],
                   Ext |-> Extent([d \in Axes |-> cs[d].from],
                                  [d \in Axes |-> cs[d].len]),
                   Out |-> EmptyGrid]

GetGridCall ==
  /\ call.op = "GetGrid"
  /\ ~call.done
  /\ call' = [call EXCEPT !.done = TRUE,
                          !.Out = GetGrid(call.Dims3, call.DownsamplingFactor3,
                                          call.Ext)]
  /\ UNCHANGED batchVars

NextGrid == GetGridCall

SpecGrid == InitGrid /\ [][NextGrid]_vars

(***************************************************************************)
(* CollapseByInterpolation on its own.  A volume is its dimensions and its *)
(* linear buffer, x varying fastest; samples are whole multiples of        *)
(* WeightDen, so that every interpolated value is exact.                   *)
(***************************************************************************)
Volume(Dims3, Buffer) == [Dims3 |-> Dims3, Buffer |-> Buffer]

LinearIndex(P, Dims3) == P[1] + Dims3[1] * (P[2] + Dims3[2] * P[3])

\* Vol.At<float32>(E, P): the sample at position P of the extent E
VolAt(Vol, E, P) ==
  Vol.Buffer[LinearIndex([d \in Axes |-> E.From[d] + P[d]], Vol.Dims3) + 1]

\* idx2::Slab(E, D, N): the first N slabs of E along D, the last -N when N < 0
Slab(E, D, N) ==
  LET A == IF N < 0 THEN -N ELSE N
  IN  Extent([d \in Axes |-> IF d = D /\ N < 0
                               THEN E.From[d] + E.Dims[d] + N ELSE E.From[d]],
             [d \in Axes |-> IF d = D THEN A ELSE E.Dims[d]])

Positions(D3) ==
  { P \in [Axes -> 0..MaxSlab] : \A d \in Axes : P[d] < D3[d] }

\* line 230, with T = TNum / WeightDen
Interpolate(V1, V2, TNum) == (V1 * TNum + V2 * (WeightDen - TNum)) \div WeightDen

CollapseByInterpolation(Vol, D, TNum) ==
  LET E == ExtentOfDims(Vol.Dims3)
      E1 == Slab(E, D, 1)
      E2 == Slab(E, D, -1)
      D3 == E1.Dims
      At(k) == CHOOSE P \in Positions(D3) : LinearIndex(P, D3) + 1 = k
  IN  Volume(D3, [k \in 1..Prod3(D3) |->
                    Interpolate(VolAt(Vol, E1, At(k)), VolAt(Vol, E2, At(k)), TNum)])

SampleBuffer(Seed, N) == [k \in 1..N |-> WeightDen * (k * k + Seed)]

InitCollapse ==
  /\ IdleBatch
  /\ \E D \in Axes, n1, n2 \in 1..MaxSlab, Seed \in 0..MaxSeed,
        TNum \in 0..WeightDen :
       LET Dims3 == [d \in Axes |-> IF d = D THEN 2
                                    ELSE IF (d - D) % 3 = 1 THEN n1 ELSE n2]
       IN  call = [op |-> "Collapse", done |-> FALSE,
                   Vol |-> Volume(Dims3, SampleBuffer(Seed, Prod3(Dims3))),
                   D |-> D, TNum |-> TNum,
                   Out |-> Volume(Zero3, << >>)]

CollapseCall ==
  /\ call.op = "Collapse"
  /\ ~call.done
  /\ call' = [call EXCEPT !.done = TRUE,
                          !.Out = CollapseByInterpolation(call.Vol, call.D,
                                                          call.TNum)]
  /\ UNCHANGED batchVars

NextCollapse == CollapseCall

SpecCollapse == InitCollapse /\ [][NextCollapse]_vars

(***************************************************************************)
(* GetStrides on its own; the result is v3i(FaceStride, DepthStride,       *)
(* TimeStride)                                                             *)
(***************************************************************************)
Orders == {"DepthFaceTime", "DepthTimeFace", "FaceTimeDepth", "FaceDepthTime",
           "TimeDepthFace", "TimeFaceDepth"}

GetStridesSwapped(NumFaces, NumDepths, NumTimes, Order) ==
  CASE Order = "DepthFaceTime" -> V3(NumTimes, NumFaces * NumTimes, 1)
    [] Order = "DepthTimeFace" -> V3(1, NumTimes * NumFaces, NumFaces)
    [] Order = "FaceDepthTime" -> V3(NumDepths * NumTimes, NumTimes, 1)
    [] Order = "FaceTimeDepth" -> V3(NumTimes * NumDepths, 1, NumDepths)
    [] Order = "TimeDepthFace" -> V3(1, NumDepths, NumDepths * NumFaces)
    [] Order = "TimeFaceDepth" -> V3(NumDepths, 1, NumFaces * NumDepths)

GetStrides(NumFaces, NumDepths, NumTimes, Order) ==
  CASE Order = "DepthFaceTime" -> V3(NumTimes, NumFaces * NumTimes, 1)
    [] Order = "DepthTimeFace" -> V3(1, NumTimes * NumFaces, NumFaces)
    [] Order = "FaceDepthTime" -> V3(NumDepths * NumTimes, NumTimes, 1)
    [] Order = "FaceTimeDepth" -> V3(NumTimes * NumDepths, 1, NumDepths)
    [] Order = "TimeDepthFace" -> V3(1, NumFaces, NumDepths * NumFaces)
    [] Order = "TimeFaceDepth" -> V3(NumDepths, 1, NumFaces * NumDepths)

\* ExecuteQuery, line 642
FlatIndex(Strides3, F, D, T) == T * Strides3[3] + F * Strides3[1] + D * Strides3[2]

InitStrides ==
  /\ IdleBatch
  /\ \E nf \in 1..MaxFaces, nd \in 1..MaxDepths, nt \in 1..MaxTimes,
        o \in Orders :
       call = [op |-> "GetStrides", done |-> FALSE, NumFaces |-> nf,
               NumDepths |-> nd, NumTimes |-> nt, Order |-> o, Out |-> Zero3]

GetStridesCall ==
  /\ call.op = "GetStrides"
  /\ ~call.done
  /\ call' = [call EXCEPT !.done = TRUE,
                          !.Out = GetStrides(call.NumFaces, call.NumDepths,
                                             call.NumTimes, call.Order)]
  /\ UNCHANGED batchVars

NextStrides == GetStridesCall

SpecStrides == InitStrides /\ [][NextStrides]_vars

(***************************************************************************)
(* ExecuteQuery: verify the query_info, build one input per (depth, face,  *)
(* time step), and hand the inputs to DecodeMultipleFiles.                 *)
(*                                                                         *)
(* A file name is the number whose decimal digits are the four numbers     *)
(* NameFormat prints (face, depth, first and last time step of the file);  *)
(* with one digit each, the names are ordered as the strings are.          *)
(***************************************************************************)
Range(B, E) == [Begin |-> B, End |-> E]

SpatialRange(Face, XRange, YRange) ==
  [Face |-> Face, XRange |-> XRange, YRange |-> YRange]

\* sprintf(NameFormat, Face, Depth, TimeBegin, TimeEnd), line 649
FormatName(Face, Depth, TimeBegin, TimeEnd) ==
  ((Face * NameBase + Depth) * NameBase + TimeBegin) * NameBase + TimeEnd

\* The two time steps that a file name shows
NameTimeBegin(InFile) == (InFile \div NameBase) % NameBase

NameTimeEnd(InFile) == InFile % NameBase

\* query_info::Verify, lines 513-537
QueryInfoVerify(Q) ==
  /\ \A r \in 1..Len(Q.SpatialRanges) :
       /\ ~(Q.SpatialRanges[r].XRange.Begin >= Q.SpatialRanges[r].XRange.End)
       /\ ~(Q.SpatialRanges[r].YRange.Begin >= Q.SpatialRanges[r].YRange.End)
  /\ ~(Q.TimeRange.Begin >= Q.TimeRange.End)
  /\ ~(Q.DepthRange.Begin >= Q.DepthRange.End)

\* llc_2160_query_info::Verify, lines 567-571
Llc2160Verify(Q) == TRUE

\* QueryInfo.Verify() of line 626: the virtual call
Verify(Q) ==
  IF Q.Class = "llc_2160_query_info" THEN Llc2160Verify(Q) ELSE QueryInfoVerify(Q)

\* lines 627-630
NumDepthsOf(Q) == Q.DepthRange.End - Q.DepthRange.Begin

NumTimesOf(Q) == Q.TimeRange.End - Q.TimeRange.Begin

NumFacesOf(Q) == Len(Q.SpatialRanges)

NumInputsOf(Q) == NumDepthsOf(Q) * NumFacesOf(Q) * NumTimesOf(Q)

\* line 646
TimeBeginOf(Time, TimeGroup) == CDiv(Time, TimeGroup)

\* line 647
TimeEndOf(Time, TimeGroup) == TimeBeginOf(Time, TimeGroup) + TimeGroup

\* lines 639-654: the input of depth index D, face index F, time index T
BuildInput(Q, D, F, T) ==
  LET Depth == Q.DepthRange.Begin + D
      Time == Q.TimeRange.Begin + T
      R == Q.SpatialRanges[F + 1]
  IN  MakeInput(FormatName(R.Face, Depth, TimeBeginOf(Time, Q.TimeGroup),
                           TimeEndOf(Time, Q.TimeGroup)),
                Extent(V3(R.XRange.Begin, R.YRange.Begin, Time),
                       V3(R.XRange.End - R.XRange.Begin,
                          R.YRange.End - R.YRange.Begin, 1)),
                IF R.Face > 2
                  THEN V3(Q.Downsampling3[2], Q.Downsampling3[1], Q.Downsampling3[3])
                  ELSE Q.Downsampling3,
                Q.Accuracy)

\* lines 656-658
BuildMetadata(Q, D, F, T) ==
  [Depth |-> Q.DepthRange.Begin + D, Time |-> Q.TimeRange.Begin + T,
   Face |-> Q.SpatialRanges[F + 1].Face]

\* lines 636-642: the (D, F, T) of the three loops that is stored at Index
LoopTriples(Q) ==
  (0..(NumDepthsOf(Q) - 1)) \X (0..(NumFacesOf(Q) - 1)) \X (0..(NumTimesOf(Q) - 1))

TripleOfIndex(Q, Index) ==
  LET Strides3 == GetStrides(NumFacesOf(Q), NumDepthsOf(Q), NumTimesOf(Q), Q.Order)
  IN  CHOOSE x \in LoopTriples(Q) : FlatIndex(Strides3, x[2], x[1], x[3]) = Index

\* line 631: Outputs->resize keeps the caller's records and adds empty ones
ResizeOutputs(Outs, N) ==
  [k \in 1..N |-> IF k <= Len(Outs) THEN Outs[k] ELSE CallerOutput(0)]

\* What the caller passes: the ranges of a face
SpatialRangeKinds ==
  { <<SpatialRange(0, Range(1, 5), Range(1, 4))>>,
    <<SpatialRange(3, Range(1, 5), Range(1, 4))>>,
    <<SpatialRange(0, Range(3, 1), Range(1, 4))>>,
    <<SpatialRange(0, Range(1, 5), Range(2, 2))>>,
    <<SpatialRange(0, Range(1, 5), Range(1, 4)),
      SpatialRange(3, Range(1, 5), Range(1, 4))>> }

\* The depth range is well formed or empty; the time range is any
QueryInfos ==
  { Q \in [Class : {"llc_2160_query_info", "query_info"},
           SpatialRanges : SpatialRangeKinds,
           TimeRange : { Range(b, e) : b, e \in 0..MaxTimeStep },
           DepthRange : { Range(b, e) : b, e \in 0..(MaxDepth + 1) },
           Order : {"DepthFaceTime", "TimeFaceDepth"},
           TimeGroup : 1..MaxTimeGroup,
           Downsampling3 : {V3(1, 0, 0)},
           Accuracy : {1}] :
      /\ Q.DepthRange.Begin <= Q.DepthRange.End
      /\ NumInputsOf(Q) <= MaxQueries }

\* The caller's output vector: empty, or one record with an 8-byte buffer
CallerOutputs == { << >>, <<CallerOutput(8)>> }

InitQuery ==
  /\ \E Q \in QueryInfos :
       call = [op |-> "ExecuteQuery", stage |-> "verify", QueryInfo |-> Q,
               OutputsMetadata |-> << >>, Result |-> "none"]
  /\ Outputs \in CallerOutputs
  /\ MaxThreads \in 1..MaxHwThreads
  /\ Inputs = << >>
  /\ SortedInputs = << >>
  /\ NumThreads = 0
  /\ pc = "idle"
  /\ I = 0
  /\ Begin = 0
  /\ Tasks = << >>
  /\ Result = "none"

\* line 626: Verify fails, DimensionMismatched is returned
ExecuteQueryReject ==
  /\ call.op = "ExecuteQuery"
  /\ call.stage = "verify"
  /\ ~Verify(call.QueryInfo)
  /\ call' = [call EXCEPT !.stage = "returned", !.Result = "DimensionMismatched"]
  /\ UNCHANGED batchVars

\* line 630: a negative count converts to a size above max_size(), and the
\* constructor of std::vector throws
ExecuteQueryThrow ==
  /\ call.op = "ExecuteQuery"
  /\ call.stage = "verify"
  /\ Verify(call.QueryInfo)
  /\ NumInputsOf(call.QueryInfo) < 0
  /\ call' = [call EXCEPT !.stage = "thrown"]
  /\ UNCHANGED batchVars

\* lines 626-660: the inputs are built and DecodeMultipleFiles is entered
ExecuteQueryBuild ==
  /\ call.op = "ExecuteQuery"
  /\ call.stage = "verify"
  /\ Verify(call.QueryInfo)
  /\ \E Q \in {call.QueryInfo} :
       \E N \in {NumInputsOf(Q)} :
         /\ N >= 0
         /\ Inputs' = [k \in 1..N |->
                         LET x == TripleOfIndex(Q, k - 1)
                         IN  BuildInput(Q, x[1], x[2], x[3])]
         /\ Outputs' = ResizeOutputs(Outputs, N)
         /\ call' = [call EXCEPT
                       !.stage = "decode",
                       !.OutputsMetadata =
                         [k \in 1..N |->
                            LET x == TripleOfIndex(Q, k - 1)
                            IN  BuildMetadata(Q, x[1], x[2], x[3])]]
  /\ pc' = "entry"
  /\ UNCHANGED <<SortedInputs, NumThreads, MaxThreads, I, Begin, Tasks, Result>>

\* lines 662-663: DecodeMultipleFiles has returned; its error, if any, is
\* propagated
ExecuteQueryReturn ==
  /\ call.op = "ExecuteQuery"
  /\ call.stage = "decode"
  /\ pc = "returned"
  /\ call' = [call EXCEPT !.stage = "returned", !.Result = Result]
  /\ UNCHANGED batchVars

NextQuery ==
  \/ ExecuteQueryReject
  \/ ExecuteQueryThrow
  \/ ExecuteQueryBuild
  \/ ExecuteQueryReturn
  \/ AssertAbort
  \/ SortInputs
  \/ LoopExit
  \/ LoopContinue
  \/ LoopGroupEnd
  \/ AdmitSleep
  \/ AdmitWake
  \/ AdmitPass
  \/ Increment
  \/ Spawn
  \/ FinalSleep
  \/ FinalWake
  \/ Return
  \/ DecodeOk
  \/ DecodeFail
  \/ ScatterMember
  \/ ScatterTooSmall
  \/ Decrement
  \/ Finish

SpecQuery == InitQuery /\ [][NextQuery]_vars

(***************************************************************************)
(* Properties                                                              *)
(***************************************************************************)
Finished(t) == Tasks[t].pc \in {"done", "failed"}

ActiveTasks == { t \in TaskIds : ~Finished(t) }

AnyFailed == \E t \in TaskIds : Tasks[t].Err # "none"

AllDispatched == pc \in {"final", "final_sleep", "returned"}

\* C1: the number of RunQueryTask threads that have been started and have
\* not yet finished never exceeds MaxThreads.
C1_ActiveTasksBounded == Cardinality(ActiveTasks) <= MaxThreads

\* C2: every started task decrements NumThreads exactly once before it
\* ends, on every exit path (success, failed decode, SizeTooSmall).
C2_DecrementOnEveryExit ==
  \A t \in TaskIds : Finished(t) => Tasks[t].Decs = 1

\* C3: under fair scheduling every non-empty batch completes: every group's
\* task is started, NumThreads returns to zero and DecodeMultipleFiles
\* returns, whichever tasks succeed or fail.
C3_BatchCompletes ==
  (Len(Inputs) > 0) =>
    <>(pc = "returned" /\ NumThreads = 0 /\ \A t \in TaskIds : Finished(t))

\* C4: if a group task fails, DecodeMultipleFiles returns an error and not
\* NoError; it returns NoError only when every group task succeeded.
C4_ErrorReturned ==
  /\ [](AnyFailed => <>(pc = "returned" /\ Result # "NoError"))
  /\ []((pc = "returned" /\ Result = "NoError") => ~AnyFailed)

\* C5: after a batch in which every group task succeeded, the output record
\* at index i (the caller's order) carries the grid computed from input i's
\* own extent and downsampling factor, and index i was written by exactly
\* one task.
C5_OutputsInCallerOrder ==
  (pc = "returned" /\ ~AnyFailed) =>
    \A i \in 1..Len(Inputs) :
      /\ Outputs[i].OutGrid = GetOutputGrid(FileDims3(Inputs[i].InFile), Inputs[i])
      /\ Cardinality(Outputs[i].Writers) = 1

C5_Witness ==
  /\ pc = "returned"
  /\ ~AnyFailed
  /\ Len(Inputs) = 2
  /\ Inputs[1].InFile > Inputs[2].InFile
  /\ Inputs[1].Extent # Inputs[2].Extent
  /\ Len(Tasks) = 2

\* The queries of a file, and the axis-wise union of their extents
QueriesOf(f) == { i \in 1..Len(Inputs) : Inputs[i].InFile = f }

UnionFirst(S, d) ==
  CHOOSE m \in { Inputs[i].Extent.From[d] : i \in S } :
    \A i \in S : m <= Inputs[i].Extent.From[d]

UnionLast(S, d) ==
  CHOOSE m \in { LastE(Inputs[i].Extent)[d] : i \in S } :
    \A i \in S : m >= LastE(Inputs[i].Extent)[d]

GroupMembers(t) ==
  { SortedInputs[k].second + 1 : k \in (Tasks[t].Begin + 1)..Tasks[t].I }

\* C6: the queries are partitioned into maximal groups of equal file
\* identifier, exactly one decode is invoked per distinct file identifier,
\* and the extent passed to it is the axis-wise union (minimum of the
\* firsts, maximum of the lasts) of the extents of all queries of that file.
C6_OneCoveringDecodePerFile ==
  /\ \A t \in TaskIds :
       /\ Tasks[t].Decodes <= 1
       /\ GroupMembers(t) = QueriesOf(SortedInputs[Tasks[t].Begin + 1].first.InFile)
       /\ Tasks[t].Decodes = 1 =>
            LET S == QueriesOf(Tasks[t].Input.InFile)
            IN  /\ S = GroupMembers(t)
                /\ \A d \in Axes :
                     /\ Tasks[t].Input.Extent.From[d] = UnionFirst(S, d)
                     /\ LastE(Tasks[t].Input.Extent)[d] = UnionLast(S, d)
  /\ \A t1, t2 \in TaskIds : t1 # t2 => GroupMembers(t1) \cap GroupMembers(t2) = {}
  /\ (AllDispatched /\ \A t \in TaskIds : Tasks[t].pc # "decode") =>
       \A i \in 1..Len(Inputs) :
         Cardinality({ t \in TaskIds : /\ Tasks[t].Decodes = 1
                                       /\ Tasks[t].Input.InFile = Inputs[i].InFile }) = 1

C6_Witness ==
  \E t \in TaskIds :
    /\ Tasks[t].Decodes = 1
    /\ Tasks[t].I - Tasks[t].Begin = 2
    /\ \A i \in GroupMembers(t) : Tasks[t].Input.Extent # Inputs[i].Extent
    /\ Len(Tasks) = 1
    /\ AllDispatched

\* The stride, the first and the last of the requested extent on axis d
ReqStride(d) == Pow2(call.DownsamplingFactor3[d])

ReqFirst(d) == call.Ext.From[d]

ReqLast(d) == call.Ext.From[d] + call.Ext.Dims[d] - 1

\* first is the largest multiple of s <= f, last the smallest multiple of
\* s >= l, and dims = (last - first) / s + 1
Snapped(G, d, s, f, l) ==
  /\ G.Strd[d] = s
  /\ G.From[d] % s = 0
  /\ G.From[d] <= f /\ f < G.From[d] + s
  /\ LastG(G)[d] % s = 0
  /\ LastG(G)[d] >= l /\ l > LastG(G)[d] - s
  /\ G.Dims[d] * s = LastG(G)[d] - G.From[d] + s
  /\ G.Dims[d] >= 1

\* C7 as stated: for any volume dimensions and any requested extent the
\* grid's first is the largest multiple of s <= the requested first, its
\* last the smallest multiple of s >= the requested last, dims =
\* (last - first) / s + 1.
C7_SnapsToRequested ==
  (call.op = "GetGrid" /\ call.done) =>
    \A d \in Axes : Snapped(call.Out, d, ReqStride(d), ReqFirst(d), ReqLast(d))

\* C7 amended: for a requested extent that meets the volume, the grid snaps
\* the extent cropped to the volume: its last is the smallest multiple of s
\* >= min(requested last, volume dimension - 1).
C7_SnapsToCropped ==
  (/\ call.op = "GetGrid"
   /\ call.done
   /\ \A d \in Axes : ReqFirst(d) <= call.Dims3[d] - 1) =>
    \A d \in Axes :
      Snapped(call.Out, d, ReqStride(d), ReqFirst(d),
              Min2(ReqLast(d), call.Dims3[d] - 1))

C7_Witness ==
  /\ call.op = "GetGrid"
  /\ call.done
  /\ \A d \in Axes : ReqFirst(d) <= call.Dims3[d] - 1
  /\ \E d \in Axes :
       /\ ReqLast(d) > call.Dims3[d] - 1
       /\ ReqStride(d) = 2
       /\ ReqFirst(d) % 2 = 1
       /\ LastG(call.Out)[d] > call.Dims3[d] - 1

\* C8: for a volume with 2 samples along the collapsed axis, weight 0 gives
\* at every remaining coordinate exactly the low-side sample, weight 1 the
\* high-side sample and weight 1/2 the arithmetic mean of the two.
C8_CollapseEndpoints ==
  (call.op = "Collapse" /\ call.done) =>
    LET E == ExtentOfDims(call.Vol.Dims3)
        Low(P) == VolAt(call.Vol, E, P)
        High(P) == VolAt(call.Vol, E, [P EXCEPT ![call.D] = 1])
        Got(P) == call.Out.Buffer[LinearIndex(P, call.Out.Dims3) + 1]
    IN  \A P \in Positions(call.Out.Dims3) :
          /\ call.TNum = 0 => Got(P) = Low(P)
          /\ call.TNum = WeightDen => Got(P) = High(P)
          /\ 2 * call.TNum = WeightDen => 2 * Got(P) = Low(P) + High(P)

\* The axes of an ordering, slowest first, and the count of an axis
OrderAxes(o) ==
  CASE o = "DepthFaceTime" -> <<"depth", "face", "time">>
    [] o = "DepthTimeFace" -> <<"depth", "time", "face">>
    [] o = "FaceTimeDepth" -> <<"face", "time", "depth">>
    [] o = "FaceDepthTime" -> <<"face", "depth", "time">>
    [] o = "TimeDepthFace" -> <<"time", "depth", "face">>
    [] o = "TimeFaceDepth" -> <<"time", "face", "depth">>

CountOf(a) ==
  CASE a = "face" -> call.NumFaces
    [] a = "depth" -> call.NumDepths
    [] a = "time" -> call.NumTimes

StrideOf(a) ==
  CASE a = "face" -> call.Out[1]
    [] a = "depth" -> call.Out[2]
    [] a = "time" -> call.Out[3]

\* C9: for each of the six orderings (slowest, middle, fastest) GetStrides
\* returns stride 1 for the fastest axis, countFastest for the middle axis
\* and countMiddle * countFastest for the slowest axis, so that
\* face*faceStride + depth*depthStride + time*timeStride maps the index
\* triples one-to-one onto 0 .. numFaces*numDepths*numTimes - 1.
C9_StridesOfOrdering ==
  (call.op = "GetStrides" /\ call.done) =>
    LET o == OrderAxes(call.Order)
        Triples == (0..(call.NumFaces - 1)) \X (0..(call.NumDepths - 1))
                     \X (0..(call.NumTimes - 1))
        Index(x) == FlatIndex(call.Out, x[1], x[2], x[3])
    IN  /\ StrideOf(o[3]) = 1
        /\ StrideOf(o[2]) = CountOf(o[3])
        /\ StrideOf(o[1]) = CountOf(o[2]) * CountOf(o[3])
        /\ \A x, y \in Triples : Index(x) = Index(y) => x = y
        /\ { Index(x) : x \in Triples }
             = 0..(call.NumFaces * call.NumDepths * call.NumTimes - 1)

C9_Witness ==
  /\ call.op = "GetStrides"
  /\ call.done
  /\ call.NumFaces = 5 /\ call.NumDepths = 2 /\ call.NumTimes = 3
  /\ call.Order = "DepthFaceTime"
  /\ call.Out = V3(3, 15, 1)
  /\ FlatIndex(call.Out, 2, 1, 2) = 23

\* C10: a batch with an empty query list is rejected immediately:
\* DecodeMultipleFiles returns InvalidRange without starting any task and
\* without changing NumThreads or the outputs.
C10_EmptyRejected ==
  (Len(Inputs) = 0 /\ pc # "entry") =>
    /\ pc = "returned"
    /\ Result = "InvalidRange"
    /\ Tasks = << >>
    /\ NumThreads = 0
    /\ Outputs = << >>

\* The sample coordinates of a grid on axis d, and its sample positions
AxisSamples(G, d) == { G.From[d] + k * G.Strd[d] : k \in 0..(G.Dims[d] - 1) }

GridPoints(G) == AxisSamples(G, 1) \X AxisSamples(G, 2) \X AxisSamples(G, 3)

\* The tasks whose DecodeOneFile succeeded, those that ended with success,
\* and the sorted positions J of the members of a task
Decoded(t) ==
  Tasks[t].pc \in {"scatter", "dec", "tail", "done"}
    \/ Tasks[t].Err = "SizeTooSmall"

Succeeded(t) == Tasks[t].pc \in {"dec", "tail", "done"}

MemberPositions(t) == Tasks[t].Begin..(Tasks[t].I - 1)

\* The grid that line 302 computes for the member at sorted position J
MemberGrid(t, J) == GetOutputGrid(Tasks[t].Dims3, SortedInputs[J + 1].first)

\* C12: for every successfully decoded group and every member of it, the
\* member's output grid has the stride of the covering decoded grid and
\* every one of its samples lies inside the covering grid (members with the
\* empty extent, with another downsampling factor, and collapsed covering
\* grids included).
C12_MemberGridInsideCovering ==
  \A t \in TaskIds :
    Decoded(t) =>
      \A J \in MemberPositions(t) :
        /\ MemberGrid(t, J).Strd = Tasks[t].OutGrid.Strd
        /\ GridPoints(MemberGrid(t, J)) \subseteq GridPoints(Tasks[t].OutGrid)

\* C13: each task writes only the output records whose original indices
\* belong to its own group, and no output record is written by two tasks.
C13_DisjointOutputSlots ==
  \A i \in 1..Len(Outputs) :
    /\ \A t \in Outputs[i].Writers : t \in TaskIds /\ i \in GroupMembers(t)
    /\ Cardinality(Outputs[i].Writers) <= 1

C13_Witness ==
  /\ Len(Tasks) = 2
  /\ Tasks[1].pc = "dec"
  /\ Tasks[2].pc = "dec"
  /\ NumThreads = 2
  /\ Inputs[1].InFile > Inputs[2].InFile
  /\ Outputs[1].Writers = {2}
  /\ Outputs[2].Writers = {1}

\* C14: after a successful batch, on every axis on which a query requested
\* dims 1 while the snapped grid has dims 2, the output grid that the caller
\* sees has dims 1 and its first at the requested position.
C14_MemberSliceCollapsed ==
  (pc = "returned" /\ ~AnyFailed) =>
    \A i \in 1..Len(Inputs) :
      \A d \in Axes :
        (/\ Inputs[i].Extent.Dims[d] = 1
         /\ GetOutputGrid(FileDims3(Inputs[i].InFile), Inputs[i]).Dims[d] = 2) =>
          /\ Outputs[i].OutGrid.Dims[d] = 1
          /\ Outputs[i].OutGrid.From[d] = Inputs[i].Extent.From[d]

\* C15: after a group task succeeds, at every sample position of a
\* member's output grid (that the covering grid has) the member's buffer
\* holds the value that the covering decoded buffer holds at that
\* coordinate.
C15_MemberBufferCopied ==
  \A t \in TaskIds :
    Succeeded(t) =>
      \A J \in MemberPositions(t) :
        LET Out == Outputs[SortedInputs[J + 1].second + 1]
        IN  \A P \in GridPoints(Out.OutGrid) \cap GridPoints(Tasks[t].OutGrid) :
              Out.Fill =
                {DecodeOneFileBufferAt(Tasks[t].Dims3, Tasks[t].Input, P)}

\* The first query of a group in the caller's order
FirstInCallerOrder(t) ==
  CHOOSE i \in GroupMembers(t) : \A j \in GroupMembers(t) : i <= j

\* C16: the sort is stable, so the covering decode of a file uses the
\* downsampling factor and the accuracy of the query that comes first in
\* the caller's order among the queries of that file.
C16_StableFirstMember ==
  /\ \A a, b \in 1..Len(SortedInputs) :
       (a < b /\ SortedInputs[a].first.InFile = SortedInputs[b].first.InFile) =>
         SortedInputs[a].second < SortedInputs[b].second
  /\ \A t \in TaskIds :
       Tasks[t].Decodes = 1 =>
         /\ Tasks[t].Input.Downsampling3
              = Inputs[FirstInCallerOrder(t)].Downsampling3
         /\ Tasks[t].Input.Accuracy = Inputs[FirstInCallerOrder(t)].Accuracy

\* A range with Begin >= End among the X, Y, time and depth ranges
Malformed(Q) ==
  \/ \E r \in 1..Len(Q.SpatialRanges) :
       \/ Q.SpatialRanges[r].XRange.Begin >= Q.SpatialRanges[r].XRange.End
       \/ Q.SpatialRanges[r].YRange.Begin >= Q.SpatialRanges[r].YRange.End
  \/ Q.TimeRange.Begin >= Q.TimeRange.End
  \/ Q.DepthRange.Begin >= Q.DepthRange.End

\* C11: ExecuteQuery on an llc_2160_query_info with a malformed X, Y, time
\* or depth range (Begin >= End) returns an error to its caller, before any
\* input is built and before any decode task is started.
C11_MalformedRejected ==
  (/\ call.op = "ExecuteQuery"
   /\ call.QueryInfo.Class = "llc_2160_query_info"
   /\ Malformed(call.QueryInfo)
   /\ call.stage # "verify") =>
    /\ call.stage = "returned"
    /\ call.Result \notin {"none", "NoError"}
    /\ Inputs = << >>
    /\ Tasks = << >>

\* C17: every input that ExecuteQuery builds for a time step t with
\* time-group size G names the time block [TimeBegin, TimeEnd) with
\* TimeBegin a multiple of G, TimeEnd = TimeBegin + G and
\* TimeBegin <= t < TimeEnd, for every t >= 0.
C17_TimeBlockOfStep ==
  (call.op = "ExecuteQuery" /\ call.stage \in {"decode", "returned"}) =>
    \A k \in 1..Len(Inputs) :
      LET G == call.QueryInfo.TimeGroup
          t == call.OutputsMetadata[k].Time
          TimeBegin == NameTimeBegin(Inputs[k].InFile)
          TimeEnd == NameTimeEnd(Inputs[k].InFile)
      IN  /\ TimeBegin % G = 0
          /\ TimeEnd = TimeBegin + G
          /\ TimeBegin <= t
          /\ t < TimeEnd

====
